---- MODULE Spec2Model ----
(***************************************************************************)
(* Model of src/matching_engine.cpp: a single-instrument matching engine.  *)
(* One commander thread turns command lines into messages, one engine      *)
(* thread pops them and drives admission, matching, settlement and the     *)
(* order book.                                                             *)
(*                                                                         *)
(* Numbers.  Prices and USD amounts are counted in half dollars (20.50 is  *)
(* 41, 6000 is 12000): every price and balance of the model is a multiple  *)
(* of 0.5, which a double holds exactly, so the double arithmetic of the   *)
(* source is exact on them.  Quantities and coin balances are ints.        *)
(***************************************************************************)
EXTENDS Integers, Sequences, FiniteSets, TLC

\* ------------------------------------------------------------------ bounds
MaxCmds == 2
MaxTime == 1
MaxPush == 2
\* command lines of the run in which two orders tie
MaxCmdsTies == 3
\* command lines the command threads read between them
MaxCmdsThreads == 3

\* ------------------------------------------------------- program constants
INT_MAX == 2147483647

\* ---------------------------------------------------------------- inputs
\* accounts that submit orders; dana has no account
Names == {"bob", "charlie", "dana"}
Sides == {"buy", "sell"}
\* command-line tokens, one character per element
QtyTokens == {<<"5">>, <<"1", "2">>}
IdTokens == {<<"0">>, <<"1">>, <<"2">>, <<"3">>, <<"-", "1">>, <<"x">>,
             <<"9", "9", "9", "9", "9", "9", "9", "9", "9", "9">>}
\* prices 20.00 and 23.50, in half dollars
Prices == {40, 47}
\* amounts 50.00, in half dollars
Amounts == {100}
AdminNames == {"bob", "dana"}

VARIABLES
    order_book,          \* OrderBook::order_book: side -> orders in iteration order
    order_book_mutex,    \* holder of OrderBook::order_book_mutex
    accounts,            \* std::map accounts: name -> Account_Details
    accounts_mutex,      \* holder of accounts_mutex
    transactions,        \* std::vector transactions
    transactions_mutex,  \* holder of transactions_mutex
    message_queue,       \* MessageQueue::message_queue
    clock,               \* the value get_epoch_ms() returns now
    issued,              \* number of command lines the commander has read
    pc,                  \* position of the matching_engine thread
    order,               \* matching_engine's local `order`
    order_id,            \* matching_engine's local `order_id`
    call,                \* arguments of the running settle_accounts call
    pre,                 \* accounts and transactions when settle_accounts took its locks
    entry,               \* order book and log length when the order was admitted
    mq_mutex,            \* holder of MessageQueue::message_queue_mutex
    prod,                \* producer thread -> position in push
    cons,                \* position of the consumer thread in pop
    pushed,              \* history: messages in the order their push took effect
    popped,              \* history: messages in the order pop returned them
    cmd                  \* command thread -> position in command_router and its arguments

vars == <<order_book, order_book_mutex, accounts, accounts_mutex, transactions,
          transactions_mutex, message_queue, clock, issued, pc, order, order_id,
          call, pre, entry, mq_mutex, prod, cons, pushed, popped, cmd>>

engine_vars == <<order_book, order_book_mutex, accounts, accounts_mutex, transactions,
                 transactions_mutex, clock, issued, pc, order, order_id, call, pre, entry>>

mq_vars == <<mq_mutex, prod, cons, pushed, popped>>

thread_vars == <<cmd>>

NoOrder == [id |-> 0, account_name |-> "", is_buy |-> FALSE, quantity |-> 0,
            price |-> 0, timestamp |-> 0]
NoCall == [buyer |-> "", seller |-> "", quantity |-> 0, price |-> 0, aggressor |-> "",
           branch |-> ""]
NoPre == [accounts |-> << >>, transactions |-> << >>]
NoEntry == [order_book |-> << >>, transactions |-> 0, order |-> NoOrder]

\* command threads: threads that run command_router, as commander does
CmdThreads == {"c1", "c2"}
Idle == [pc |-> "idle", kind |-> "", name |-> "", order |-> NoOrder]

\* ------------------------------------------------------------ conversions
DigitValue == [c \in {"0", "1", "2", "3", "4", "5", "6", "7", "8", "9"} |->
                 CASE c = "0" -> 0 [] c = "1" -> 1 [] c = "2" -> 2 [] c = "3" -> 3
                   [] c = "4" -> 4 [] c = "5" -> 5 [] c = "6" -> 6 [] c = "7" -> 7
                   [] c = "8" -> 8 [] c = "9" -> 9]

RECURSIVE Decimal(_)
Decimal(s) == IF s = << >> THEN 0
              ELSE 10 * Decimal(SubSeq(s, 1, Len(s) - 1)) + DigitValue[s[Len(s)]]

\* std::stoi throws out_of_range when the value does not fit an int
RECURSIVE OutOfRange(_)
OutOfRange(s) ==
    IF s = << >> THEN FALSE
    ELSE LET front == SubSeq(s, 1, Len(s) - 1)
         IN  \/ OutOfRange(front)
             \/ Decimal(front) > (INT_MAX - DigitValue[s[Len(s)]]) \div 10

\* convert_string_to_int: 0 for a character that is no digit, 0 when stoi throws
convert_string_to_int(input) ==
    IF \E i \in 1..Len(input) : input[i] \notin DOMAIN DigitValue THEN 0
    ELSE IF OutOfRange(input) THEN 0
    ELSE Decimal(input)

\* ------------------------------------------------------------- order book
OrderComparator(a, b) ==
    IF a.is_buy
    THEN a.price > b.price \/ (a.price = b.price /\ a.timestamp < b.timestamp)
    ELSE a.price < b.price \/ (a.price = b.price /\ a.timestamp < b.timestamp)

SideName(is_buy) == IF is_buy THEN "buy" ELSE "sell"

\* std::multiset::emplace: before the first element the new one precedes,
\* hence behind every element equivalent to it
UpperBound(s, o) ==
    IF \E i \in 1..Len(s) : OrderComparator(o, s[i])
    THEN CHOOSE i \in 1..Len(s) :
             /\ OrderComparator(o, s[i])
             /\ \A j \in 1..(i - 1) : ~OrderComparator(o, s[j])
    ELSE Len(s) + 1

\* a container that appends instead of keeping its order
EmplaceBack(s, o) == Append(s, o)

Emplace(s, o) ==
    LET k == UpperBound(s, o)
    IN  SubSeq(s, 1, k - 1) \o <<o>> \o SubSeq(s, k, Len(s))

Erase(s, i) == SubSeq(s, 1, i - 1) \o SubSeq(s, i + 1, Len(s))

\* std::find_if over a side, given the predicate's value on each element: the index
\* of the first element satisfying it, Len + 1 for end()
FindIf(hit) ==
    IF \E i \in 1..Len(hit) : hit[i]
    THEN CHOOSE i \in 1..Len(hit) : hit[i] /\ \A j \in 1..(i - 1) : ~hit[j]
    ELSE Len(hit) + 1

\* an insertion into the side the order would trade against
add_order_opposite(book, o) ==
    [book EXCEPT ![SideName(~o.is_buy)] = Emplace(@, o)]

\* add_order (lines 178-182): emplace into the side of the order
add_order(book, o) ==
    [book EXCEPT ![SideName(o.is_buy)] = Emplace(@, o)]

RemoveSide(id) == IF id < 0 THEN "buy" ELSE "sell"

\* a removal that erases without testing what find_if returned: the last order goes
remove_order_unchecked(book, id) ==
    LET side == RemoveSide(id)
        order_it == FindIf([k \in 1..Len(book[side]) |-> book[side][k].id = id])
    IN  [book EXCEPT ![side] = Erase(@, IF order_it = Len(@) + 1 THEN Len(@) ELSE order_it)]

remove_order(book, id) ==
    IF id = 0 THEN book
    ELSE LET side == RemoveSide(id)
             order_it == FindIf([k \in 1..Len(book[side]) |-> book[side][k].id = id])
         IN  IF order_it # Len(book[side]) + 1
             THEN [book EXCEPT ![side] = Erase(@, order_it)]
             ELSE book

Abs(n) == IF n < 0 THEN -n ELSE n

RECURSIVE MaxAbsId(_)
MaxAbsId(s) == IF s = << >> THEN 0
               ELSE LET m == MaxAbsId(Tail(s))
                    IN  IF Abs(Head(s).id) > m THEN Abs(Head(s).id) ELSE m

get_last_order_id(book, isBuy) ==
    LET last_order_id == MaxAbsId(book[SideName(isBuy)])
        factor == IF isBuy THEN 1 ELSE -1
    IN  factor * (IF last_order_id = 0 THEN 1 ELSE last_order_id + 1)

construct_order(book, account_name, side, quantity, price, timestamp) ==
    [id |-> get_last_order_id(book, side = "buy"), account_name |-> account_name,
     is_buy |-> (side = "buy"), quantity |-> quantity, price |-> price,
     timestamp |-> timestamp]

\* ---------------------------------------------------------------- accounts
\* std::map::operator[]: a missing key is inserted with a zero Account_Details
Subscript(accts, name) ==
    IF name \in DOMAIN accts THEN accts
    ELSE accts @@ (name :> [usd_balance |-> 0, coin_balance |-> 0])

\* an admission test that looks for the account's orders on the order's own side
is_allowed_order_same_side(book, accts, o) ==
    LET a == Subscript(accts, o.account_name)[o.account_name]
        own == book[IF o.is_buy THEN "buy" ELSE "sell"]
    IN  /\ IF o.is_buy THEN a.usd_balance >= o.quantity * o.price
                       ELSE a.coin_balance >= o.quantity
        /\ FindIf([k \in 1..Len(own) |->
                      /\ own[k].account_name = o.account_name
                      /\ own[k].price = o.price])
             = Len(own) + 1

\* the result of is_allowed_order on the accounts it leaves behind
is_allowed_order(book, accts, o) ==
    LET a == Subscript(accts, o.account_name)[o.account_name]
    IN  IF o.is_buy
        THEN /\ a.usd_balance >= o.quantity * o.price
             /\ FindIf([k \in 1..Len(book["sell"]) |->
                           /\ book["sell"][k].account_name = o.account_name
                           /\ book["sell"][k].price = o.price])
                  = Len(book["sell"]) + 1
        ELSE /\ a.coin_balance >= o.quantity
             /\ FindIf([k \in 1..Len(book["buy"]) |->
                           /\ book["buy"][k].account_name = o.account_name
                           /\ book["buy"][k].price = o.price])
                  = Len(book["buy"]) + 1

OppositeSide(o) == IF o.is_buy THEN "sell" ELSE "buy"

\* a loop condition that wants a strictly better price than the limit
MatchContinuesStrict(book, o) ==
    LET s == book[OppositeSide(o)]
    IN  /\ s # << >>
        /\ (IF o.is_buy THEN s[1].price < o.price ELSE s[1].price > o.price)
        /\ o.quantity > 0
        /\ o.account_name # s[1].account_name

\* the loop condition without its test of the account names
MatchContinuesSelf(book, o) ==
    LET s == book[OppositeSide(o)]
    IN  /\ s # << >>
        /\ (IF o.is_buy THEN s[1].price <= o.price ELSE s[1].price >= o.price)
        /\ o.quantity > 0

\* the loop condition of match_order; order_it is begin() on every evaluation

MatchContinues(book, o) ==
    LET s == book[OppositeSide(o)]
    IN  /\ s # << >>
        /\ (IF o.is_buy THEN s[1].price <= o.price ELSE s[1].price >= o.price)
        /\ o.quantity > 0
        /\ o.account_name # s[1].account_name

\* a settlement at the aggressor's limit price
ExecutionPriceLimit(o, top) == o.price

\* lines 231 and 246: the price handed to settle_accounts is order_it->price
ExecutionPrice(o, top) == top.price

\* a replacement that is stamped like the aggressor
UpdatedOrderRestamped(top, o) ==
    [id |-> top.id, account_name |-> top.account_name, is_buy |-> top.is_buy,
     quantity |-> top.quantity - o.quantity, price |-> top.price,
     timestamp |-> o.timestamp + 1]

\* lines 236-242: the order that replaces a partially filled one
UpdatedOrder(top, o) ==
    [id |-> top.id, account_name |-> top.account_name, is_buy |-> top.is_buy,
     quantity |-> top.quantity - o.quantity, price |-> top.price,
     timestamp |-> top.timestamp]

\* a lock that never waits
CanLockHeld(mutex) == TRUE

\* std::lock_guard / std::unique_lock: the constructor returns once the mutex is free
CanLock(mutex) == mutex = "free"

\* ------------------------------------------------------------------- queue
Push(q, data) == Append(q, data)
\* a queue that hands out its newest element
Back(q) == q[Len(q)]

Front(q) == Head(q)
PopFront(q) == Tail(q)

OrderMessage(o) == [index |-> 0, order |-> o, text |-> << >>]
\* a string message, held as the tokens parse_input splits it into
StringMessage(tokens) == [index |-> 1, order |-> NoOrder, text |-> tokens]

\* ------------------------------------------------------------------- setup
\* setup(): three accounts, then four orders built and added one after the other,
\* all four within the millisecond the clock starts at
SetupAccounts ==
    ("alice" :> [usd_balance |-> 12000, coin_balance |-> 43540])
    @@ ("bob" :> [usd_balance |-> 600, coin_balance |-> 2000])
    @@ ("charlie" :> [usd_balance |-> 2470, coin_balance |-> 1000])

SetupBook(t1, t2, t3, t4) ==
    LET b0 == [buy |-> << >>, sell |-> << >>]
        b1 == add_order(b0, construct_order(b0, "alice", "buy", 1, 41, t1))
        b2 == add_order(b1, construct_order(b1, "bob", "buy", 10, 45, t2))
        b3 == add_order(b2, construct_order(b2, "charlie", "sell", 8, 47, t3))
    IN  add_order(b3, construct_order(b3, "charlie", "sell", 8, 51, t4))

Producers == {"p1", "p2"}

InitQueueThreads ==
    /\ mq_mutex = "free"
    /\ prod = [p \in Producers |-> [pc |-> "idle", n |-> 0]]
    /\ cons = "idle"
    /\ pushed = << >>
    /\ popped = << >>

Init ==
    /\ clock = 0
    /\ order_book = SetupBook(clock, clock, clock, clock)
    /\ order_book_mutex = "free"
    /\ accounts = SetupAccounts
    /\ accounts_mutex = "free"
    /\ transactions = << >>
    /\ transactions_mutex = "free"
    /\ message_queue = << >>
    /\ issued = 0
    /\ pc = "pop"
    /\ order = NoOrder
    /\ order_id = 0
    /\ call = NoCall
    /\ pre = NoPre
    /\ entry = NoEntry
    /\ cmd = [t \in CmdThreads |-> Idle]
    /\ InitQueueThreads

\* ---------------------------------------------------------- engine thread
\* a loop that knows no exit message
IsExitNever(text) == FALSE

\* line 606: the test on the first token of a string message
IsExit(text) == text[1] = "exit"

\* a loop that takes the next message before it has inserted the remainder
EnginePopEarly ==
    /\ pc \in {"pop", "add_order"}
    /\ message_queue # << >>
    /\ message_queue' = PopFront(message_queue)
    /\ IF Front(message_queue).index = 0
       THEN /\ order' = Front(message_queue).order
            /\ pc' = "is_allowed_order"
            /\ UNCHANGED order_id
       ELSE /\ order_id' = convert_string_to_int(Front(message_queue).text[2])
            /\ pc' = "remove_order"
            /\ UNCHANGED order
    /\ UNCHANGED <<order_book, order_book_mutex, accounts, accounts_mutex, transactions,
                   transactions_mutex, clock, issued, call, pre, entry>>
    /\ UNCHANGED <<mq_vars, thread_vars>>

\* matching_engine, line 578: pop and dispatch on the variant
EnginePop ==
    /\ pc = "pop"
    /\ message_queue # << >>
    /\ LET data == Front(message_queue)
       IN  /\ message_queue' = PopFront(message_queue)
           /\ IF data.index = 0
              THEN /\ order' = data.order
                   /\ pc' = "is_allowed_order"
                   /\ UNCHANGED order_id
              ELSE IF Len(data.text) = 0
              THEN UNCHANGED <<order, order_id, pc>>
              ELSE IF IsExit(data.text)
              THEN /\ pc' = "exit"
                   /\ UNCHANGED <<order, order_id>>
              ELSE IF data.text[1] = "cancel"
              THEN /\ order_id' = convert_string_to_int(data.text[2])
                   /\ pc' = "remove_order"
                   /\ UNCHANGED order
              ELSE UNCHANGED <<order, order_id, pc>>
    /\ UNCHANGED <<order_book, order_book_mutex, accounts, accounts_mutex, transactions,
                   transactions_mutex, clock, issued, call, pre, entry>>
    /\ UNCHANGED <<mq_vars, thread_vars>>

\* line 583: is_allowed_order under accounts_mutex and order_book_mutex
EngineAdmit ==
    /\ pc = "is_allowed_order"
    /\ CanLock(accounts_mutex)
    /\ CanLock(order_book_mutex)
    /\ accounts' = Subscript(accounts, order.account_name)
    /\ IF is_allowed_order(order_book, accounts, order)
       THEN /\ pc' = "match_order"
            /\ entry' = [order_book |-> order_book, transactions |-> Len(transactions),
                         order |-> order]
            /\ UNCHANGED order
       ELSE /\ pc' = "pop"
            /\ order' = NoOrder
            /\ UNCHANGED entry
    /\ UNCHANGED <<order_book, order_book_mutex, accounts_mutex, transactions,
                   transactions_mutex, message_queue, clock, issued, order_id, call, pre>>
    /\ UNCHANGED <<mq_vars, thread_vars>>

\* line 221: match_order takes order_book_mutex for the whole walk
EngineMatchLock ==
    /\ pc = "match_order"
    /\ CanLock(order_book_mutex)
    /\ order_book_mutex' = "engine"
    /\ pc' = "while"
    /\ UNCHANGED <<order_book, accounts, accounts_mutex, transactions, transactions_mutex,
                   message_queue, clock, issued, order, order_id, call, pre, entry>>
    /\ UNCHANGED <<mq_vars, thread_vars>>

\* lines 224-231 and 236-246: the loop test and the arguments of the settlement
EngineWhile ==
    /\ pc = "while"
    /\ IF MatchContinues(order_book, order)
       THEN LET top == order_book[OppositeSide(order)][1]
                buyer == IF order.is_buy THEN order.account_name ELSE top.account_name
                seller == IF order.is_buy THEN top.account_name ELSE order.account_name
            IN  IF top.quantity <= order.quantity
                THEN /\ order' = [order EXCEPT !.quantity = @ - top.quantity]
                     /\ call' = [buyer |-> buyer, seller |-> seller,
                                 quantity |-> top.quantity,
                                 price |-> ExecutionPrice(order, top),
                                 aggressor |-> SideName(order.is_buy), branch |-> "full"]
                     /\ pc' = "settle_accounts"
                     /\ UNCHANGED order_book_mutex
                ELSE /\ call' = [buyer |-> buyer, seller |-> seller,
                                 quantity |-> order.quantity,
                                 price |-> ExecutionPrice(order, top),
                                 aggressor |-> SideName(order.is_buy), branch |-> "partial"]
                     /\ pc' = "settle_accounts"
                     /\ UNCHANGED <<order, order_book_mutex>>
       ELSE /\ order_book_mutex' = "free"
            /\ pc' = "add_order"
            /\ UNCHANGED <<order, call>>
    /\ UNCHANGED <<order_book, accounts, accounts_mutex, transactions, transactions_mutex,
                   message_queue, clock, issued, order_id, pre, entry>>
    /\ UNCHANGED <<mq_vars, thread_vars>>

\* lines 203-204: settle_accounts takes accounts_mutex, then transactions_mutex
EngineSettleLock ==
    /\ pc = "settle_accounts"
    /\ CanLock(accounts_mutex)
    /\ CanLock(transactions_mutex)
    /\ accounts_mutex' = "engine"
    /\ transactions_mutex' = "engine"
    /\ pre' = [accounts |-> accounts, transactions |-> transactions]
    /\ pc' = "line206"
    /\ UNCHANGED <<order_book, order_book_mutex, accounts, transactions, message_queue,
                   clock, issued, order, order_id, call, entry>>
    /\ UNCHANGED <<mq_vars, thread_vars>>

\* an update that adds the coins whatever their sign
CreditUnsigned(accts, name, usd, coin) ==
    LET a == Subscript(accts, name)
    IN  [a EXCEPT ![name] = [usd_balance |-> @.usd_balance + usd,
                             coin_balance |-> @.coin_balance + Abs(coin)]]

Credit(accts, name, usd, coin) ==
    LET a == Subscript(accts, name)
    IN  [a EXCEPT ![name] = [usd_balance |-> @.usd_balance + usd,
                             coin_balance |-> @.coin_balance + coin]]

\* lines 206-209, one statement a step
EngineSettleWrite ==
    /\ pc \in {"line206", "line207", "line208", "line209"}
    /\ accounts' =
         CASE pc = "line206" -> Credit(accounts, call.buyer, 0, call.quantity)
           [] pc = "line207" -> Credit(accounts, call.buyer, -(call.quantity * call.price), 0)
           [] pc = "line208" -> Credit(accounts, call.seller, 0, -call.quantity)
           [] pc = "line209" -> Credit(accounts, call.seller, call.quantity * call.price, 0)
    /\ pc' = CASE pc = "line206" -> "line207" [] pc = "line207" -> "line208"
               [] pc = "line208" -> "line209" [] pc = "line209" -> "line211"
    /\ UNCHANGED <<order_book, order_book_mutex, accounts_mutex, transactions,
                   transactions_mutex, message_queue, clock, issued, order, order_id,
                   call, pre, entry>>
    /\ UNCHANGED <<mq_vars, thread_vars>>

NewTransaction(log, c, now) ==
    [id |-> Len(log) + 1, quantity |-> c.quantity, price |-> c.price, timestamp |-> now,
     buyer |-> c.buyer, seller |-> c.seller, aggressor |-> c.aggressor]

\* lines 211-212 and the end of settle_accounts: append, release both locks
EngineSettleLog ==
    /\ pc = "line211"
    /\ transactions' = Append(transactions, NewTransaction(transactions, call, clock))
    /\ accounts_mutex' = "free"
    /\ transactions_mutex' = "free"
    /\ pc' = "erase"
    /\ UNCHANGED <<order_book, order_book_mutex, accounts, message_queue, clock, issued,
                   order, order_id, call, pre, entry>>
    /\ UNCHANGED <<mq_vars, thread_vars>>

\* line 232, or lines 248-252: the book after the settlement
EngineErase ==
    /\ pc = "erase"
    /\ LET side == OppositeSide(order)
           top == order_book[side][1]
           updatedOrder == UpdatedOrder(top, order)
       IN  IF call.branch = "full"
           THEN /\ order_book' = [order_book EXCEPT ![side] = Erase(@, 1)]
                /\ pc' = "while"
                /\ UNCHANGED <<order, order_book_mutex>>
           ELSE /\ order_book' = [order_book EXCEPT ![side] = Emplace(Erase(@, 1), updatedOrder)]
                /\ order' = [order EXCEPT !.quantity = 0]
                /\ order_book_mutex' = "free"
                /\ pc' = "add_order"
    /\ call' = NoCall
    /\ pre' = NoPre
    /\ UNCHANGED <<accounts, accounts_mutex, transactions, transactions_mutex,
                   message_queue, clock, issued, order_id, entry>>
    /\ UNCHANGED <<mq_vars, thread_vars>>

\* a test that lets an order without remainder through
RemainsOrNot(o) == o.quantity >= 0

\* line 586: the test that guards add_order
Remains(o) == o.quantity > 0

\* lines 586-589: the remainder goes to the book
EngineAdd ==
    /\ pc = "add_order"
    /\ Remains(order) => CanLock(order_book_mutex)
    /\ order_book' = IF Remains(order) THEN add_order(order_book, order) ELSE order_book
    /\ order' = NoOrder
    /\ entry' = NoEntry
    /\ pc' = "pop"
    /\ UNCHANGED <<order_book_mutex, accounts, accounts_mutex, transactions,
                   transactions_mutex, message_queue, clock, issued, order_id, call, pre>>
    /\ UNCHANGED <<mq_vars, thread_vars>>

\* lines 613-614: the cancel directive
EngineRemove ==
    /\ pc = "remove_order"
    /\ CanLock(order_book_mutex)
    /\ order_book' = remove_order(order_book, order_id)
    /\ order_id' = 0
    /\ pc' = "pop"
    /\ UNCHANGED <<order_book_mutex, accounts, accounts_mutex, transactions,
                   transactions_mutex, message_queue, clock, issued, order, call, pre, entry>>
    /\ UNCHANGED <<mq_vars, thread_vars>>

\* ------------------------------------------------------- commander thread
\* command_router, "order create" (lines 527-542): the id is read from the book now,
\* the order is processed when the engine reaches it
OrderCreate(names, qtys, prices, max) ==
    /\ issued < max
    /\ CanLock(order_book_mutex)
    /\ \E account_name \in names, side \in Sides, qty \in qtys, price \in prices :
         message_queue' =
           Push(message_queue,
                OrderMessage(construct_order(order_book, account_name, side,
                                             convert_string_to_int(qty), price, clock)))
    /\ issued' = issued + 1
    /\ UNCHANGED <<order_book, order_book_mutex, accounts, accounts_mutex, transactions,
                   transactions_mutex, clock, pc, order, order_id, call, pre, entry>>
    /\ UNCHANGED <<mq_vars, thread_vars>>

\* the order lines of the command stream
CmdOrderCreate == OrderCreate(Names, QtyTokens, Prices, MaxCmds)

\* command_router, "order cancel" (lines 512-526)
CmdOrderCancel ==
    /\ issued < MaxCmds
    /\ \E token \in IdTokens :
         message_queue' =
           IF convert_string_to_int(token) = 0 THEN message_queue
           ELSE Push(message_queue, StringMessage(<<"cancel", token>>))
    /\ issued' = issued + 1
    /\ UNCHANGED <<order_book, order_book_mutex, accounts, accounts_mutex, transactions,
                   transactions_mutex, clock, pc, order, order_id, call, pre, entry>>
    /\ UNCHANGED <<mq_vars, thread_vars>>

\* command_router, "account <name> create" (lines 425-433)
CmdAccountCreate ==
    /\ issued < MaxCmds
    /\ CanLock(accounts_mutex)
    /\ \E name \in AdminNames : accounts' = Subscript(accounts, name)
    /\ issued' = issued + 1
    /\ UNCHANGED <<order_book, order_book_mutex, accounts_mutex, transactions,
                   transactions_mutex, message_queue, clock, pc, order, order_id, call,
                   pre, entry>>
    /\ UNCHANGED <<mq_vars, thread_vars>>

\* command_router, "account <name> delete" (lines 435-443)
CmdAccountDelete ==
    /\ issued < MaxCmds
    /\ CanLock(accounts_mutex)
    /\ \E name \in AdminNames :
         accounts' = [n \in DOMAIN accounts \ {name} |-> accounts[n]]
    /\ issued' = issued + 1
    /\ UNCHANGED <<order_book, order_book_mutex, accounts_mutex, transactions,
                   transactions_mutex, message_queue, clock, pc, order, order_id, call,
                   pre, entry>>
    /\ UNCHANGED <<mq_vars, thread_vars>>

\* command_router, "account <name> fund <amount>" (lines 445-452, 460-470)
CmdAccountFund ==
    /\ issued < MaxCmds
    /\ CanLock(accounts_mutex)
    /\ \E name \in AdminNames, funding_amount \in Amounts :
         accounts' = IF name \notin DOMAIN accounts THEN accounts
                     ELSE [accounts EXCEPT ![name].usd_balance = @ + funding_amount]
    /\ issued' = issued + 1
    /\ UNCHANGED <<order_book, order_book_mutex, accounts_mutex, transactions,
                   transactions_mutex, message_queue, clock, pc, order, order_id, call,
                   pre, entry>>
    /\ UNCHANGED <<mq_vars, thread_vars>>

\* command_router, "account <name> withdraw <amount>" (lines 445-452, 471-488)
CmdAccountWithdraw ==
    /\ issued < MaxCmds
    /\ CanLock(accounts_mutex)
    /\ \E name \in AdminNames, withdraw_amount \in Amounts :
         accounts' = IF name \notin DOMAIN accounts THEN accounts
                     ELSE IF withdraw_amount > accounts[name].usd_balance THEN accounts
                     ELSE [accounts EXCEPT ![name].usd_balance = @ - withdraw_amount]
    /\ issued' = issued + 1
    /\ UNCHANGED <<order_book, order_book_mutex, accounts_mutex, transactions,
                   transactions_mutex, message_queue, clock, pc, order, order_id, call,
                   pre, entry>>
    /\ UNCHANGED <<mq_vars, thread_vars>>

\* get_epoch_ms(): time passes
Tick ==
    /\ clock < MaxTime
    /\ clock' = clock + 1
    /\ UNCHANGED <<order_book, order_book_mutex, accounts, accounts_mutex, transactions,
                   transactions_mutex, message_queue, issued, pc, order, order_id, call,
                   pre, entry>>
    /\ UNCHANGED <<mq_vars, thread_vars>>

\* --------------------------------------------------------- specifications
\* orders and cancels only: no account command
Next ==
    \/ EnginePop
    \/ EngineAdmit
    \/ EngineMatchLock
    \/ EngineWhile
    \/ EngineSettleLock
    \/ EngineSettleWrite
    \/ EngineSettleLog
    \/ EngineErase
    \/ EngineAdd
    \/ EngineRemove
    \/ CmdOrderCreate
    \/ CmdOrderCancel
    \/ Tick

Spec == Init /\ [][Next]_vars

\* the same with the account commands of the commander thread
NextLedger ==
    \/ Next
    \/ CmdAccountCreate
    \/ CmdAccountDelete
    \/ CmdAccountFund
    \/ CmdAccountWithdraw

SpecLedger == Init /\ [][NextLedger]_vars

\* order lines whose quantity token may be 0, from the accounts that hold both assets
Traders == {"bob", "charlie"}
AnyQtyTokens == {<<"0">>, <<"5">>, <<"1", "2">>}
CmdOrderCreateAnyQty == OrderCreate(Traders, AnyQtyTokens, Prices, MaxCmds)

NextQty ==
    \/ EnginePop
    \/ EngineAdmit
    \/ EngineMatchLock
    \/ EngineWhile
    \/ EngineSettleLock
    \/ EngineSettleWrite
    \/ EngineSettleLog
    \/ EngineErase
    \/ EngineAdd
    \/ CmdOrderCreateAnyQty
    \/ Tick

SpecQty == Init /\ [][NextQty]_vars

\* order lines at two prices that rest between the best bid and the best ask of the
\* setup or cross the bids: 20.00 and 23.00, in half dollars
TiePrices == {40, 46}
CmdOrderCreateTies == OrderCreate(Traders, QtyTokens, TiePrices, MaxCmdsTies)

NextTies ==
    \/ EnginePop
    \/ EngineAdmit
    \/ EngineMatchLock
    \/ EngineWhile
    \/ EngineSettleLock
    \/ EngineSettleWrite
    \/ EngineSettleLog
    \/ EngineErase
    \/ EngineAdd
    \/ CmdOrderCreateTies
    \/ Tick

SpecTies == Init /\ [][NextTies]_vars

\* MessageQueue::push called with a string that is not a cancel line: the engine's exit
\* message and the empty string. command_router itself pushes neither (commander
\* leaves its loop on "exit" without a push, line 643)
Texts == {<<"exit">>, << >>}
PushText ==
    /\ issued < MaxCmds
    /\ \E text \in Texts : message_queue' = Push(message_queue, StringMessage(text))
    /\ issued' = issued + 1
    /\ UNCHANGED <<order_book, order_book_mutex, accounts, accounts_mutex, transactions,
                   transactions_mutex, clock, pc, order, order_id, call, pre, entry>>
    /\ UNCHANGED <<mq_vars, thread_vars>>

\* the engine fed by a producer that also sends those strings
NextExit ==
    \/ Next
    \/ PushText

SpecExit == Init /\ [][NextExit]_vars

\* ------------------------------------- command threads, one lock at a time
\* the command lines a command thread reads: account <name> query | fund | withdraw |
\* transactions | create, state, transactions, order create
AccountKinds == {"query", "fund", "withdraw", "account_transactions", "create"}
ThreadOrders == {[NoOrder EXCEPT !.account_name = "charlie", !.is_buy = b,
                                 !.quantity = convert_string_to_int(<<"5">>),
                                 !.price = 40] : b \in BOOLEAN}
ThreadCommands ==
    [pc : {"idle"}, kind : AccountKinds, name : AdminNames, order : {NoOrder}]
      \cup [pc : {"idle"}, kind : {"state", "transactions"}, name : {""}, order : {NoOrder}]
      \cup [pc : {"idle"}, kind : {"order_create"}, name : {""}, order : ThreadOrders]

\* the line at which command_router, or the function it calls first, takes its first lock
FirstLock(kind) ==
    CASE kind = "create" -> "line428"
      [] kind = "state" -> "line366"
      [] kind = "transactions" -> "line379"
      [] kind = "order_create" -> "line277"
      [] OTHER -> "line445"

\* lock sites of the command path: accounts_mutex and order_book_mutex
AccountsLockLines == {"line366", "line379", "line428", "line445", "line468", "line479"}
BookLockLines == {"line277", "line306"}

\* the line that follows a lock site
Locked(line) ==
    CASE line = "line366" -> "line367" [] line = "line379" -> "line380"
      [] line = "line428" -> "line429" [] line = "line445" -> "line446"
      [] line = "line468" -> "line469" [] line = "line479" -> "line480"
      [] line = "line277" -> "line278" [] line = "line306" -> "line307"

\* a thread reads a command line; for order create the arguments, get_epoch_ms()
\* included, are evaluated before construct_order is called (line 541)
ThreadCommand(t) ==
    /\ issued < MaxCmdsThreads
    /\ cmd[t].pc = "idle"
    /\ \E c \in ThreadCommands :
         cmd' = [cmd EXCEPT ![t] = [c EXCEPT !.pc = FirstLock(c.kind),
                                             !.order.timestamp = IF c.kind = "order_create"
                                                                 THEN clock ELSE 0]]
    /\ issued' = issued + 1
    /\ UNCHANGED <<order_book, order_book_mutex, accounts, accounts_mutex, transactions,
                   transactions_mutex, message_queue, clock, pc, order, order_id, call,
                   pre, entry>>
    /\ UNCHANGED mq_vars

\* "order cancel 2" (lines 512-526): no lock, one push
ThreadOrderCancel(t) ==
    /\ issued < MaxCmdsThreads
    /\ cmd[t].pc = "idle"
    /\ message_queue' = Push(message_queue, StringMessage(<<"cancel", <<"2">>>>))
    /\ issued' = issued + 1
    /\ UNCHANGED <<order_book, order_book_mutex, accounts, accounts_mutex, transactions,
                   transactions_mutex, clock, pc, order, order_id, call, pre, entry>>
    /\ UNCHANGED <<mq_vars, thread_vars>>

\* a lock_guard or unique_lock on accounts_mutex is constructed
ThreadLockAccounts(t) ==
    /\ cmd[t].pc \in AccountsLockLines
    /\ CanLock(accounts_mutex)
    /\ accounts_mutex' = t
    /\ cmd' = [cmd EXCEPT ![t].pc = Locked(@)]
    /\ UNCHANGED <<order_book, order_book_mutex, accounts, transactions,
                   transactions_mutex, message_queue, clock, issued, pc, order, order_id,
                   call, pre, entry>>
    /\ UNCHANGED mq_vars

\* a lock_guard on order_book_mutex is constructed
ThreadLockBook(t) ==
    /\ cmd[t].pc \in BookLockLines
    /\ CanLock(order_book_mutex)
    /\ order_book_mutex' = t
    /\ cmd' = [cmd EXCEPT ![t].pc = Locked(@)]
    /\ UNCHANGED <<order_book, accounts, accounts_mutex, transactions,
                   transactions_mutex, message_queue, clock, issued, pc, order, order_id,
                   call, pre, entry>>
    /\ UNCHANGED mq_vars

\* lines 446-452: find under the unique_lock, then return or unlock and branch
ThreadFind(t) ==
    /\ cmd[t].pc = "line446"
    /\ accounts_mutex' = "free"
    /\ cmd' = [cmd EXCEPT ![t] =
                 IF cmd[t].name \notin DOMAIN accounts THEN Idle
                 ELSE [@ EXCEPT !.pc = CASE cmd[t].kind = "query" -> "line457"
                                         [] cmd[t].kind = "fund" -> "line468"
                                         [] cmd[t].kind = "withdraw" -> "line479"
                                         [] OTHER -> "line379"]]
    /\ UNCHANGED <<order_book, order_book_mutex, accounts, transactions,
                   transactions_mutex, message_queue, clock, issued, pc, order, order_id,
                   call, pre, entry>>
    /\ UNCHANGED mq_vars

\* lines 457 and 458: usd_balance, then coin_balance, read through the iterator after
\* lock.unlock()
ThreadQueryRead(t) ==
    /\ cmd[t].pc \in {"line457", "line458"}
    /\ cmd' = [cmd EXCEPT ![t] = IF @.pc = "line457" THEN [@ EXCEPT !.pc = "line458"]
                                 ELSE Idle]
    /\ UNCHANGED <<order_book, order_book_mutex, accounts, accounts_mutex, transactions,
                   transactions_mutex, message_queue, clock, issued, pc, order, order_id,
                   call, pre, entry>>
    /\ UNCHANGED mq_vars

\* line 469 under the lock_guard of line 468
ThreadFund(t) ==
    /\ cmd[t].pc = "line469"
    /\ \E funding_amount \in Amounts :
         accounts' = [accounts EXCEPT ![cmd[t].name].usd_balance = @ + funding_amount]
    /\ accounts_mutex' = "free"
    /\ cmd' = [cmd EXCEPT ![t] = Idle]
    /\ UNCHANGED <<order_book, order_book_mutex, transactions, transactions_mutex,
                   message_queue, clock, issued, pc, order, order_id, call, pre, entry>>
    /\ UNCHANGED mq_vars

\* lines 480-487 under the lock_guard of line 479: the check and the debit
ThreadWithdraw(t) ==
    /\ cmd[t].pc = "line480"
    /\ \E withdraw_amount \in Amounts :
         accounts' = IF withdraw_amount > accounts[cmd[t].name].usd_balance THEN accounts
                     ELSE [accounts EXCEPT ![cmd[t].name].usd_balance = @ - withdraw_amount]
    /\ accounts_mutex' = "free"
    /\ cmd' = [cmd EXCEPT ![t] = Idle]
    /\ UNCHANGED <<order_book, order_book_mutex, transactions, transactions_mutex,
                   message_queue, clock, issued, pc, order, order_id, call, pre, entry>>
    /\ UNCHANGED mq_vars

\* line 429 under the lock_guard of line 428, then print_accounts
ThreadCreate(t) ==
    /\ cmd[t].pc = "line429"
    /\ accounts' = Subscript(accounts, cmd[t].name)
    /\ accounts_mutex' = "free"
    /\ cmd' = [cmd EXCEPT ![t].pc = "line366"]
    /\ UNCHANGED <<order_book, order_book_mutex, transactions, transactions_mutex,
                   message_queue, clock, issued, pc, order, order_id, call, pre, entry>>
    /\ UNCHANGED mq_vars

\* a state command whose lock on the accounts lasts until the order book is printed
HoldsAccountsThroughState(kind) == kind = "state"

\* print_accounts returns with its lock_guard destroyed (line 375), whoever called it
HoldsAccountsAfterPrint(kind) == FALSE

\* print_accounts, lines 367-375; `state` goes on to print_order_book (line 546)
ThreadPrintAccounts(t) ==
    /\ cmd[t].pc = "line367"
    /\ accounts_mutex' = IF HoldsAccountsAfterPrint(cmd[t].kind) THEN t ELSE "free"
    /\ cmd' = [cmd EXCEPT ![t] = IF @.kind = "state" THEN [@ EXCEPT !.pc = "line306"]
                                 ELSE Idle]
    /\ UNCHANGED <<order_book, order_book_mutex, accounts, transactions,
                   transactions_mutex, message_queue, clock, issued, pc, order, order_id,
                   call, pre, entry>>
    /\ UNCHANGED mq_vars

\* print_transactions, lines 380-412: the log is read under accounts_mutex
ThreadPrintTransactions(t) ==
    /\ cmd[t].pc = "line380"
    /\ accounts_mutex' = "free"
    /\ cmd' = [cmd EXCEPT ![t] = Idle]
    /\ UNCHANGED <<order_book, order_book_mutex, accounts, transactions,
                   transactions_mutex, message_queue, clock, issued, pc, order, order_id,
                   call, pre, entry>>
    /\ UNCHANGED mq_vars

\* print_order_book, from line 307 to its end; the thread holds nothing afterwards
ThreadPrintOrderBook(t) ==
    /\ cmd[t].pc = "line307"
    /\ order_book_mutex' = "free"
    /\ accounts_mutex' = IF accounts_mutex = t THEN "free" ELSE accounts_mutex
    /\ cmd' = [cmd EXCEPT ![t] = Idle]
    /\ UNCHANGED <<order_book, accounts, transactions, transactions_mutex,
                   message_queue, clock, issued, pc, order, order_id, call, pre, entry>>
    /\ UNCHANGED mq_vars

\* get_last_order_id under its lock_guard (lines 278-287), then the rest of
\* construct_order and the push (lines 291-299, 541-542)
ThreadOrderPush(t) ==
    /\ cmd[t].pc = "line278"
    /\ order_book_mutex' = "free"
    /\ LET o == cmd[t].order
       IN  message_queue' =
             Push(message_queue,
                  OrderMessage(construct_order(order_book, o.account_name,
                                               SideName(o.is_buy), o.quantity, o.price,
                                               o.timestamp)))
    /\ cmd' = [cmd EXCEPT ![t] = Idle]
    /\ UNCHANGED <<order_book, accounts, accounts_mutex, transactions,
                   transactions_mutex, clock, issued, pc, order, order_id, call, pre,
                   entry>>
    /\ UNCHANGED mq_vars

\* ---------------------------------- the engine's nested locks, one by one
\* line 259: is_allowed_order takes accounts_mutex
EngineAdmitLock ==
    /\ pc = "is_allowed_order"
    /\ CanLock(accounts_mutex)
    /\ accounts_mutex' = "engine"
    /\ pc' = "line260"
    /\ UNCHANGED <<order_book, order_book_mutex, accounts, transactions,
                   transactions_mutex, message_queue, clock, issued, order, order_id,
                   call, pre, entry>>
    /\ UNCHANGED <<mq_vars, thread_vars>>

\* lines 260-272: with accounts_mutex held it takes order_book_mutex, evaluates the test
\* and returns, which releases both
EngineAdmitTest ==
    /\ pc = "line260"
    /\ CanLock(order_book_mutex)
    /\ accounts' = Subscript(accounts, order.account_name)
    /\ accounts_mutex' = "free"
    /\ IF is_allowed_order(order_book, accounts, order)
       THEN /\ pc' = "match_order"
            /\ entry' = [order_book |-> order_book, transactions |-> Len(transactions),
                         order |-> order]
            /\ UNCHANGED order
       ELSE /\ pc' = "pop"
            /\ order' = NoOrder
            /\ UNCHANGED entry
    /\ UNCHANGED <<order_book, order_book_mutex, transactions, transactions_mutex,
                   message_queue, clock, issued, order_id, call, pre>>
    /\ UNCHANGED <<mq_vars, thread_vars>>

\* line 203: settle_accounts, called with order_book_mutex held, takes accounts_mutex
EngineSettleLockAccounts ==
    /\ pc = "settle_accounts"
    /\ CanLock(accounts_mutex)
    /\ accounts_mutex' = "engine"
    /\ pc' = "line204"
    /\ UNCHANGED <<order_book, order_book_mutex, accounts, transactions,
                   transactions_mutex, message_queue, clock, issued, order, order_id,
                   call, pre, entry>>
    /\ UNCHANGED <<mq_vars, thread_vars>>

\* line 204: then transactions_mutex
EngineSettleLockTransactions ==
    /\ pc = "line204"
    /\ CanLock(transactions_mutex)
    /\ transactions_mutex' = "engine"
    /\ pre' = [accounts |-> accounts, transactions |-> transactions]
    /\ pc' = "line206"
    /\ UNCHANGED <<order_book, order_book_mutex, accounts, accounts_mutex, transactions,
                   message_queue, clock, issued, order, order_id, call, entry>>
    /\ UNCHANGED <<mq_vars, thread_vars>>

\* the engine and two command threads, every lock acquisition a step of its own
NextThreads ==
    \/ EnginePop
    \/ EngineAdmitLock
    \/ EngineAdmitTest
    \/ EngineMatchLock
    \/ EngineWhile
    \/ EngineSettleLockAccounts
    \/ EngineSettleLockTransactions
    \/ EngineSettleWrite
    \/ EngineSettleLog
    \/ EngineErase
    \/ EngineAdd
    \/ EngineRemove
    \/ \E t \in CmdThreads :
         \/ ThreadCommand(t)
         \/ ThreadOrderCancel(t)
         \/ ThreadLockAccounts(t)
         \/ ThreadLockBook(t)
         \/ ThreadFind(t)
         \/ ThreadQueryRead(t)
         \/ ThreadFund(t)
         \/ ThreadWithdraw(t)
         \/ ThreadCreate(t)
         \/ ThreadPrintAccounts(t)
         \/ ThreadPrintTransactions(t)
         \/ ThreadPrintOrderBook(t)
         \/ ThreadOrderPush(t)

SpecThreads == Init /\ [][NextThreads]_vars

\* ------------------------------------------- main: commander and engine
\* the thread main starts on commander (line 674)
Commander == "c1"
CommanderRuns == cmd[Commander].pc = "idle"

\* commander reads "exit" or the end of the input and returns (lines 631-646): it
\* pushes nothing
CommanderEnd ==
    /\ CommanderRuns
    /\ cmd' = [cmd EXCEPT ![Commander].pc = "ended"]
    /\ UNCHANGED <<engine_vars, message_queue>>
    /\ UNCHANGED mq_vars

\* the steps of the matching_engine thread
EngineStep ==
    \/ EnginePop
    \/ EngineAdmit
    \/ EngineMatchLock
    \/ EngineWhile
    \/ EngineSettleLock
    \/ EngineSettleWrite
    \/ EngineSettleLog
    \/ EngineErase
    \/ EngineAdd
    \/ EngineRemove

\* main (lines 671-679): the commander reads order lines until it ends, the engine
\* runs beside it
NextMain ==
    \/ EngineStep
    \/ CommanderRuns /\ CmdOrderCreate
    \/ CommanderRuns /\ CmdOrderCancel
    \/ CommanderEnd
    \/ Tick

SpecMain == Init /\ [][NextMain]_vars

\* ------------------------------------------- MessageQueue under its mutex
\* Several producer threads in push and one consumer thread in pop, each lock
\* acquisition, wait and notification a step of its own.
Tagged(p, n) == StringMessage(<<p, n>>)

\* push, line 145: lock_guard on message_queue_mutex
ProducerLock(p) ==
    /\ prod[p].pc = "idle"
    /\ prod[p].n < MaxPush
    /\ CanLock(mq_mutex)
    /\ mq_mutex' = p
    /\ prod' = [prod EXCEPT ![p].pc = "locked"]
    /\ UNCHANGED <<message_queue, cons, pushed, popped>>
    /\ UNCHANGED <<engine_vars, thread_vars>>

\* push, lines 146-147: enqueue, leave the scope of the lock
ProducerPush(p) ==
    /\ prod[p].pc = "locked"
    /\ message_queue' = Push(message_queue, Tagged(p, prod[p].n + 1))
    /\ pushed' = Append(pushed, Tagged(p, prod[p].n + 1))
    /\ mq_mutex' = "free"
    /\ prod' = [prod EXCEPT ![p].pc = "notify"]
    /\ UNCHANGED <<cons, popped>>
    /\ UNCHANGED <<engine_vars, thread_vars>>

\* push, line 148: notify_one wakes the consumer if it waits
ProducerNotify(p) ==
    /\ prod[p].pc = "notify"
    /\ cons' = IF cons = "waiting" THEN "woken" ELSE cons
    /\ prod' = [prod EXCEPT ![p] = [pc |-> "idle", n |-> @.n + 1]]
    /\ UNCHANGED <<message_queue, mq_mutex, pushed, popped>>
    /\ UNCHANGED <<engine_vars, thread_vars>>

\* pop, line 153: unique_lock on message_queue_mutex
ConsumerLock ==
    /\ cons = "idle"
    /\ CanLock(mq_mutex)
    /\ mq_mutex' = "consumer"
    /\ cons' = "locked"
    /\ UNCHANGED <<message_queue, prod, pushed, popped>>
    /\ UNCHANGED <<engine_vars, thread_vars>>

\* pop, lines 154-155: the predicate fails, wait releases the mutex
ConsumerWait ==
    /\ cons = "locked"
    /\ message_queue = << >>
    /\ mq_mutex' = "free"
    /\ cons' = "waiting"
    /\ UNCHANGED <<message_queue, prod, pushed, popped>>
    /\ UNCHANGED <<engine_vars, thread_vars>>

\* a condition variable may wake without a notification
ConsumerSpurious ==
    /\ cons = "waiting"
    /\ cons' = "woken"
    /\ UNCHANGED <<message_queue, mq_mutex, prod, pushed, popped>>
    /\ UNCHANGED <<engine_vars, thread_vars>>

\* wait takes the mutex again and tests the predicate again
ConsumerWake ==
    /\ cons = "woken"
    /\ CanLock(mq_mutex)
    /\ mq_mutex' = "consumer"
    /\ cons' = "locked"
    /\ UNCHANGED <<message_queue, prod, pushed, popped>>
    /\ UNCHANGED <<engine_vars, thread_vars>>

\* pop, lines 156-158: the predicate holds, take the front, return
ConsumerTake ==
    /\ cons = "locked"
    /\ message_queue # << >>
    /\ popped' = Append(popped, Front(message_queue))
    /\ message_queue' = PopFront(message_queue)
    /\ mq_mutex' = "free"
    /\ cons' = "idle"
    /\ UNCHANGED <<prod, pushed>>
    /\ UNCHANGED <<engine_vars, thread_vars>>

NextMQ ==
    \/ \E p \in Producers : ProducerLock(p)
    \/ \E p \in Producers : ProducerPush(p)
    \/ \E p \in Producers : ProducerNotify(p)
    \/ ConsumerLock
    \/ ConsumerWait
    \/ ConsumerSpurious
    \/ ConsumerWake
    \/ ConsumerTake

SpecMQ == Init /\ [][NextMQ]_vars

\* ------------------------------------------------------------------ claims
\* a may stand before b on a side: better price, or the same price and not later
Precedes(is_buy, a, b) ==
    IF is_buy
    THEN a.price > b.price \/ (a.price = b.price /\ a.timestamp <= b.timestamp)
    ELSE a.price < b.price \/ (a.price = b.price /\ a.timestamp <= b.timestamp)

PriceTimeSorted(is_buy, s) ==
    \A i \in 1..Len(s), j \in 1..Len(s) : i < j => Precedes(is_buy, s[i], s[j])

\* C1: in every reachable state the buy side is sorted by price descending and the
\* sell side by price ascending, ties in both by timestamp ascending.
C1_PriceTimePriority ==
    /\ PriceTimeSorted(TRUE, order_book["buy"])
    /\ PriceTimeSorted(FALSE, order_book["sell"])

\* a side holds two orders at one price, stamped at different times, after a trade
C1_Witness ==
    /\ transactions # << >>
    /\ \E side \in Sides : \E i, j \in 1..Len(order_book[side]) :
         /\ i < j
         /\ order_book[side][i].price = order_book[side][j].price
         /\ order_book[side][i].timestamp < order_book[side][j].timestamp

RECURSIVE SumOver(_, _, _)
SumOver(accts, names, field) ==
    IF names = {} THEN 0
    ELSE LET n == CHOOSE x \in names : TRUE
         IN  accts[n][field] + SumOver(accts, names \ {n}, field)

TotalUsd(accts) == SumOver(accts, DOMAIN accts, "usd_balance")
TotalCoin(accts) == SumOver(accts, DOMAIN accts, "coin_balance")

C3_NoSelfTrade ==
    \A i \in 1..Len(transactions) : transactions[i].buyer # transactions[i].seller

\* after a trade, the engine stands at the loop test before a crossing resting order
\* of the aggressor's own account
C3_Witness ==
    /\ transactions # << >>
    /\ pc = "while"
    /\ MatchContinuesSelf(order_book, order)
    /\ order_book[OppositeSide(order)][1].account_name = order.account_name

Crosses(o, resting) ==
    IF o.is_buy THEN resting.price <= o.price ELSE resting.price >= o.price

Best(is_buy, s, r) ==
    \A k \in 1..Len(s) : IF is_buy THEN r.price >= s[k].price ELSE r.price <= s[k].price

\* the fills of match_order: each transaction is against the first resting order of
\* the opposite side, which has the best price of that side and crosses the
\* aggressor's limit, and carries that resting order's price
FillsInPriority ==
    (pc = "line211" /\ pc' = "erase") =>
        LET side == OppositeSide(order)
            top == order_book[side][1]
            tx == transactions'[Len(transactions')]
        IN  /\ Len(transactions') = Len(transactions) + 1
            /\ Best(top.is_buy, order_book[side], top)
            /\ Crosses(entry.order, top)
            /\ tx.price = top.price
            /\ tx.quantity <= top.quantity
            /\ (IF order.is_buy THEN tx.seller ELSE tx.buyer) = top.account_name
            /\ (IF order.is_buy THEN tx.buyer ELSE tx.seller) = order.account_name

\* match_order has returned for a sell 5@20.00 that was admitted on the bids
\* 10@22.50 (bob), 1@20.50 (alice)
InstanceSell ==
    /\ pc = "add_order"
    /\ ~entry.order.is_buy /\ entry.order.quantity = 5 /\ entry.order.price = 40
    /\ Len(entry.order_book["buy"]) = 2
    /\ entry.order_book["buy"][1].account_name = "bob"
    /\ entry.order_book["buy"][1].quantity = 10
    /\ entry.order_book["buy"][1].price = 45
    /\ entry.order_book["buy"][2].account_name = "alice"
    /\ entry.order_book["buy"][2].quantity = 1
    /\ entry.order_book["buy"][2].price = 41

\* one transaction of 5 at 22.50 bought by bob, bob rests with 5, alice untouched
InstanceOutcome ==
    /\ Len(transactions) = entry.transactions + 1
    /\ transactions[Len(transactions)].quantity = 5
    /\ transactions[Len(transactions)].price = 45
    /\ transactions[Len(transactions)].buyer = "bob"
    /\ transactions[Len(transactions)].seller = entry.order.account_name
    /\ order_book["buy"] = <<[entry.order_book["buy"][1] EXCEPT !.quantity = 5],
                             entry.order_book["buy"][2]>>
    /\ order.quantity = 0

\* C4 as stated: the fills go in priority order at the maker's price, and every
\* admitted sell 5@20.00 on the bids 10@22.50 (bob), 1@20.50 (alice) ends with one
\* transaction of 5 at 22.50 against bob, bob resting with 5, alice untouched.
C4_AsStated ==
    [][FillsInPriority /\ (InstanceSell => InstanceOutcome)]_vars

\* C4, amended: the fills go in priority order at the maker's price, and an admitted
\* sell 5@20.00 from an account other than bob on those bids ends with one transaction
\* of 5 at 22.50 against bob, bob resting with 5, alice untouched.
C4_MakerPricePriority ==
    [][FillsInPriority
       /\ ((InstanceSell /\ entry.order.account_name # "bob") => InstanceOutcome)]_vars

\* the instance has run: charlie's sell 5@20.00 met the setup's bids
C4_Witness ==
    /\ pc = "add_order"
    /\ entry.order.account_name = "charlie"
    /\ ~entry.order.is_buy /\ entry.order.quantity = 5 /\ entry.order.price = 40
    /\ entry.order_book = SetupBook(0, 0, 0, 0)
    /\ Len(transactions) = 1
    /\ transactions[1].price = 45

\* the accounts settle_accounts must leave, given the accounts it found
Settled(before, c) ==
    [n \in DOMAIN before \cup {c.buyer, c.seller} |->
        LET old == IF n \in DOMAIN before THEN before[n]
                   ELSE [usd_balance |-> 0, coin_balance |-> 0]
        IN  IF n = c.buyer
            THEN [usd_balance |-> old.usd_balance - c.quantity * c.price,
                  coin_balance |-> old.coin_balance + c.quantity]
            ELSE IF n = c.seller
            THEN [usd_balance |-> old.usd_balance + c.quantity * c.price,
                  coin_balance |-> old.coin_balance - c.quantity]
            ELSE old]

\* C5: when settle_accounts returns, the accounts are those it found when it took the
\* locks with the buyer's coins up and USD down, the seller's coins down and USD up by
\* quantity and quantity*price and nothing else changed, and the log is the log it
\* found plus one transaction with the call's quantity, price, buyer, seller and side;
\* the account commands of the commander thread run at the same time.
C5_SettleExact ==
    [][(pc = "line211" /\ pc' = "erase") =>
          LET tx == transactions'[Len(transactions')]
          IN  /\ call.buyer # call.seller
              /\ accounts' = Settled(pre.accounts, call)
              /\ Len(transactions') = Len(pre.transactions) + 1
              /\ SubSeq(transactions', 1, Len(pre.transactions)) = pre.transactions
              /\ tx.quantity = call.quantity /\ tx.price = call.price
              /\ tx.buyer = call.buyer /\ tx.seller = call.seller
              /\ tx.aggressor = SideName(order.is_buy)
              /\ tx.id = Len(transactions')
      ]_vars

\* a settlement has returned after the commander changed an account
C5_Witness ==
    /\ pc = "erase"
    /\ Len(transactions) = 1
    /\ \E n \in DOMAIN SetupAccounts :
         n \notin DOMAIN accounts \/ accounts[n].usd_balance # Settled(SetupAccounts,
                                        transactions[1])[n].usd_balance

\* C6: the step that ends a partial fill leaves, in place of the first resting order of
\* the opposite side, an order with its id, timestamp, price, account and side and with
\* quantity (old quantity - aggressor's remaining quantity) > 0; the rest of the book is
\* as it was, the aggressor's remaining quantity is 0 and the walk is over.
C6_PartialFill ==
    [][(pc = "erase" /\ pc' # "erase" /\ call.branch = "partial") =>
          LET side == OppositeSide(order)
              top == order_book[side][1]
              kept == [top EXCEPT !.quantity = top.quantity - order.quantity]
          IN  /\ top.quantity > order.quantity
              /\ order.quantity > 0
              /\ Len(order_book'[side]) = Len(order_book[side])
              /\ \E k \in 1..Len(order_book'[side]) :
                   /\ order_book'[side][k] = kept
                   /\ Erase(order_book'[side], k) = Erase(order_book[side], 1)
              /\ order_book'[SideName(order.is_buy)] = order_book[SideName(order.is_buy)]
              /\ order'.quantity = 0
              /\ pc' = "add_order"
      ]_vars

\* a partial fill has ended: the first bid of the setup rests with less than it had
C6_Witness ==
    /\ pc = "add_order"
    /\ order.quantity = 0
    /\ entry.order_book["buy"] # << >>
    /\ order_book["buy"] # << >>
    /\ order_book["buy"][1].id = entry.order_book["buy"][1].id
    /\ order_book["buy"][1].quantity < entry.order_book["buy"][1].quantity
    /\ order_book["buy"][1].quantity > 0

Resting(book, side, id) == \E k \in 1..Len(book[side]) : book[side][k].id = id

Without(book, side, id) ==
    [book EXCEPT ![side] = Erase(@, CHOOSE k \in 1..Len(@) : @[k].id = id)]

\* C7: when the engine has processed a cancel for a positive id that a resting buy order
\* carries, the book is the book without that order; likewise for a negative id and the
\* sell side.
C7_CancelRemoves ==
    [][(pc = "remove_order" /\ pc' = "pop") =>
          /\ (order_id > 0 /\ Resting(order_book, "buy", order_id)) =>
                order_book' = Without(order_book, "buy", order_id)
          /\ (order_id < 0 /\ Resting(order_book, "sell", order_id)) =>
                order_book' = Without(order_book, "sell", order_id)
      ]_vars

\* C8: when the engine processes a cancel for id 0 or for an id that no resting order
\* carries (never present, or filled and removed since), the order book, the accounts
\* and the transaction log stay as they are; so does every repetition of it.
C8_CancelNoOp ==
    [][(/\ pc = "remove_order" /\ pc' = "pop"
        /\ \/ order_id = 0
           \/ ~(Resting(order_book, "buy", order_id) \/ Resting(order_book, "sell", order_id)))
       => /\ order_book' = order_book
          /\ accounts' = accounts
          /\ transactions' = transactions
      ]_vars

\* the engine is about to apply a cancel of id 2 after the bid with id 2 was filled
\* and removed
C8_Witness ==
    /\ pc = "remove_order"
    /\ order_id = 2
    /\ transactions # << >>
    /\ ~Resting(order_book, "buy", 2)
    /\ ~Resting(order_book, "sell", 2)
    /\ order_book["sell"] # << >>

\* C9: the messages pop has returned, followed by the messages in the queue, are the
\* messages in the order their pushes took effect; and a step in which pop returns
\* finds the queue non-empty and returns its oldest message.
C9_Fifo ==
    /\ [](pushed = popped \o message_queue)
    /\ [][popped' # popped =>
            /\ message_queue # << >>
            /\ popped' = Append(popped, pushed[Len(popped) + 1])
            /\ Len(message_queue') = Len(message_queue) - 1]_vars

\* pop has returned messages of both producers while more are queued
C9_Witness ==
    /\ Len(popped) >= 2
    /\ \E i, j \in 1..Len(popped) : popped[i].text[1] # popped[j].text[1]
    /\ Len(message_queue) >= 2

\* C10: the engine dequeues a message only when nothing of an earlier message is left to
\* do: no order in hand, no settlement call open, no lock held; and whenever it applies
\* a cancel, or is ready to dequeue, the order it admitted before has been matched,
\* settled and inserted.
C10_OneMessageAtATime ==
    /\ [](pc \in {"pop", "remove_order"} =>
            /\ order = NoOrder /\ entry = NoEntry /\ call = NoCall
            /\ order_book_mutex = "free" /\ accounts_mutex = "free"
            /\ transactions_mutex = "free")
    /\ [][Len(message_queue') < Len(message_queue) => pc = "pop"]_vars

\* a cancel is about to be applied after an order that traded twice and whose remainder
\* rests in the book
C10_Witness ==
    /\ pc = "remove_order"
    /\ Len(transactions) = 2
    /\ order_book["buy"] = << >>
    /\ Len(order_book["sell"]) = 3

\* the balance an account holds; an account that is not in the map holds nothing
Holding(accts, name, field) == IF name \in DOMAIN accts THEN accts[name][field] ELSE 0

\* some resting order of the side is of that account at that price
RestsAt(book, side, name, price) ==
    \E k \in 1..Len(book[side]) :
        /\ book[side][k].account_name = name
        /\ book[side][k].price = price

\* C11: the admission step accepts a buy order exactly when its account holds at least
\* quantity * price in USD and has no resting sell order at exactly that price, and a
\* sell order exactly when its account holds at least quantity coins and has no resting
\* buy order at exactly that price; orders of the account on the order's own side, or on
\* the opposite side at another price, play no part in the answer.
C11_Admission ==
    [][(pc = "is_allowed_order" /\ pc' # "is_allowed_order") =>
          /\ pc' \in {"match_order", "pop"}
          /\ (pc' = "match_order") <=>
               IF order.is_buy
               THEN /\ Holding(accounts, order.account_name, "usd_balance")
                         >= order.quantity * order.price
                    /\ ~RestsAt(order_book, "sell", order.account_name, order.price)
               ELSE /\ Holding(accounts, order.account_name, "coin_balance")
                         >= order.quantity
                    /\ ~RestsAt(order_book, "buy", order.account_name, order.price)
      ]_vars

\* the engine is about to turn away a buy order that its account can pay for, because
\* the account rests on the sell side at the order's price; the account also rests on
\* the buy side, and at another price
C11_Witness ==
    /\ pc = "is_allowed_order"
    /\ order.is_buy
    /\ Holding(accounts, order.account_name, "usd_balance") >= order.quantity * order.price
    /\ RestsAt(order_book, "sell", order.account_name, order.price)
    /\ \E k \in 1..Len(order_book["buy"]) :
         /\ order_book["buy"][k].account_name = order.account_name
         /\ order_book["buy"][k].price # order.price
    /\ ~is_allowed_order(order_book, accounts, order)

\* C12: a step in which the engine turns an order away leaves the order book, the set of
\* accounts, every balance and the transaction log as they were, whether the order named
\* an account that does not exist or one that rests on the opposite side at its price.
C12_RejectionNoChange ==
    [][(pc = "is_allowed_order" /\ pc' = "pop") =>
          /\ order_book' = order_book
          /\ DOMAIN accounts' = DOMAIN accounts
          /\ accounts' = accounts
          /\ transactions' = transactions
      ]_vars

\* C13: every resting order has a quantity greater than 0 in every state, the states
\* between two steps of a match included; the step that ends a full fill takes the filled
\* order out of the book, the step that ends a partial fill leaves it with a quantity
\* greater than 0, and an order in hand with remaining quantity 0, whether it was filled
\* or was submitted with quantity 0, is not inserted.
C13_RestingPositive ==
    /\ [](\A side \in Sides : \A k \in 1..Len(order_book[side]) :
             order_book[side][k].quantity > 0)
    /\ [][(pc = "erase" /\ pc' # "erase" /\ call.branch = "full") =>
             order_book'[OppositeSide(order)] = Erase(order_book[OppositeSide(order)], 1)
         ]_vars
    /\ [][(pc = "add_order" /\ pc' # "add_order" /\ order.quantity = 0) =>
             order_book' = order_book]_vars

\* an order submitted with quantity 0 was admitted and walked the crossing book without a
\* fill; the engine is about to decide whether it goes into the book
C13_Witness ==
    /\ pc = "add_order"
    /\ entry.order.quantity = 0
    /\ order.quantity = 0
    /\ MatchContinues(order_book, [order EXCEPT !.quantity = 1])
    /\ transactions = << >>

\* C14: in every state no two resting orders of one side carry the same id, however the
\* commander's submissions (each id is computed when the order is constructed, before it
\* is enqueued) interleave with the engine; every resting buy order has a positive id and
\* every resting sell order a negative one.
C14_UniqueIds ==
    /\ \A side \in Sides : \A i, j \in 1..Len(order_book[side]) :
          i # j => order_book[side][i].id # order_book[side][j].id
    /\ \A k \in 1..Len(order_book["buy"]) : order_book["buy"][k].id > 0
    /\ \A k \in 1..Len(order_book["sell"]) : order_book["sell"][k].id < 0

\* C15: the step in which the engine dequeues a string message whose first token is
\* "exit" takes it to its terminal state; from then on it dequeues no message, and the
\* order book, the accounts, the transaction log and the engine's own state stay as they
\* are, whatever is enqueued later.
C15_ExitTerminal ==
    /\ [][(/\ Len(message_queue') < Len(message_queue)
           /\ message_queue[1].index = 1
           /\ message_queue[1].text # << >>
           /\ message_queue[1].text[1] = "exit") => pc' = "exit"]_vars
    /\ [][pc = "exit" =>
            /\ pc' = "exit"
            /\ Len(message_queue') >= Len(message_queue)
            /\ order_book' = order_book
            /\ accounts' = accounts
            /\ transactions' = transactions
            /\ <<order, order_id, call, pre, entry>>' = <<order, order_id, call, pre, entry>>
         ]_vars

\* the engine has terminated on an exit message and an order enqueued after it waits in
\* the queue
C15_Witness ==
    /\ pc = "exit"
    /\ issued = MaxCmds
    /\ Len(message_queue) = 1
    /\ message_queue[1].index = 0

\* C16: when the walk of match_order finds, at the head of the opposite side, a crossing
\* order of the aggressor's own account while the aggressor still has quantity left, the
\* walk ends there: nothing is settled, the aggressor keeps its whole remaining quantity
\* and the book is untouched, so no order behind the head is filled; and from the end of
\* a walk to the insertion of the remainder no transaction is recorded and the opposite
\* side stays as it is.
C16_HardHalt ==
    /\ [][(/\ pc = "while" /\ pc' # "while"
           /\ order.quantity > 0
           /\ order_book[OppositeSide(order)] # << >>
           /\ Crosses(order, order_book[OppositeSide(order)][1])
           /\ order_book[OppositeSide(order)][1].account_name = order.account_name)
          => /\ pc' = "add_order"
             /\ order' = order
             /\ order_book' = order_book
             /\ transactions' = transactions
             /\ call' = NoCall]_vars
    /\ [][pc = "add_order" =>
             /\ transactions' = transactions
             /\ order_book'[OppositeSide(order)] = order_book[OppositeSide(order)]]_vars

\* a walk has ended at the aggressor's own order with nothing filled, while a crossing
\* order of another account rests behind it
C16_Witness ==
    /\ pc = "add_order"
    /\ order = entry.order
    /\ order.quantity > 0
    /\ Len(transactions) = entry.transactions
    /\ LET s == order_book[OppositeSide(order)]
       IN  /\ Len(s) >= 2
           /\ s[1].account_name = order.account_name
           /\ Crosses(order, s[1])
           /\ \E k \in 2..Len(s) : /\ s[k].account_name # order.account_name
                                   /\ Crosses(order, s[k])

\* C17: the step that ends a partial fill leaves the partially filled order where it was,
\* at the head of its side with its quantity reduced, and every other resting order of
\* that side behind it in the order they had, orders with its price and its timestamp
\* included.
C17_PartialFillKeepsPosition ==
    [][(pc = "erase" /\ pc' # "erase" /\ call.branch = "partial") =>
          LET side == OppositeSide(order)
              top == order_book[side][1]
          IN  order_book'[side] =
                <<[top EXCEPT !.quantity = top.quantity - order.quantity]>>
                  \o Tail(order_book[side])
      ]_vars

\* the asks of the setup rest untouched and the admitted order is a buy 12 @ 23.50 of an
\* account other than charlie
InstanceBuy ==
    /\ entry.order.is_buy /\ entry.order.quantity = 12 /\ entry.order.price = 47
    /\ entry.order.account_name # "charlie"
    /\ Len(entry.order_book["sell"]) = 2
    /\ \A k \in 1..2 : /\ entry.order_book["sell"][k].account_name = "charlie"
                       /\ entry.order_book["sell"][k].quantity = 8
    /\ entry.order_book["sell"][1].price = 47
    /\ entry.order_book["sell"][2].price = 51

\* C18: the step that follows match_order inserts the order exactly when its remaining
\* quantity is greater than 0: one order more on its own side, with the remaining
\* quantity and the price, account and timestamp it was submitted with, the other side
\* untouched; with remaining quantity 0 the book stays as it is. Instance: against the
\* asks 8 @ 23.50 and 8 @ 25.50 of charlie, an admitted buy 12 @ 23.50 of another account
\* has filled 8 at 23.50, the 23.50 ask is gone, the 25.50 ask is untouched and the order
\* rests as a buy 4 @ 23.50.
C18_RemainderRests ==
    [][(pc = "add_order" /\ pc' # "add_order") =>
          LET own == SideName(order.is_buy)
              other == OppositeSide(order)
          IN  /\ order_book'[other] = order_book[other]
              /\ IF order.quantity > 0
                 THEN \E k \in 1..Len(order_book'[own]) :
                        /\ order_book'[own][k].quantity = order.quantity
                        /\ order_book'[own][k].price = entry.order.price
                        /\ order_book'[own][k].account_name = entry.order.account_name
                        /\ order_book'[own][k].timestamp = entry.order.timestamp
                        /\ order_book'[own][k].is_buy = entry.order.is_buy
                        /\ Erase(order_book'[own], k) = order_book[own]
                 ELSE order_book'[own] = order_book[own]
              /\ InstanceBuy =>
                   /\ Len(transactions) = entry.transactions + 1
                   /\ transactions[Len(transactions)].quantity = 8
                   /\ transactions[Len(transactions)].price = 47
                   /\ transactions[Len(transactions)].seller = "charlie"
                   /\ transactions[Len(transactions)].buyer = entry.order.account_name
                   /\ order_book'["sell"] = <<entry.order_book["sell"][2]>>
                   /\ order.quantity = 4
                   /\ \E k \in 1..Len(order_book'["buy"]) :
                        /\ order_book'["buy"][k].quantity = 4
                        /\ order_book'["buy"][k].price = 47
                        /\ order_book'["buy"][k].account_name = entry.order.account_name
      ]_vars

\* the instance: the buy 12 @ 23.50 has been matched and is about to be inserted with 4
C18_Witness ==
    /\ pc = "add_order"
    /\ InstanceBuy
    /\ order.quantity = 4
    /\ Len(transactions) = 1
    /\ Len(order_book["sell"]) = 1

\* the lines at which a command thread reads or writes a balance or the transaction log:
\* account query, fund, withdraw, the state display and the transaction listing
AccessLines == {"line457", "line458", "line469", "line480", "line367", "line380"}

\* settle_accounts has written some of what it writes and not yet all
MidSettlement == pc \in {"line207", "line208", "line209", "line211"}

\* C19: no command thread executes a line that reads or writes a balance or the
\* transaction log while settle_accounts is in the middle of its updates; and the step
\* of withdraw that finds the balance sufficient is the step that debits it.
C19_Exclusive ==
    /\ [][\A t \in CmdThreads :
            (cmd[t].pc \in AccessLines /\ cmd'[t] # cmd[t]) => ~MidSettlement]_vars
    /\ [][\A t \in CmdThreads :
            (cmd[t].pc = "line480" /\ cmd'[t] # cmd[t]) =>
               \E amount \in Amounts :
                 accounts'[cmd[t].name].usd_balance =
                   IF amount > accounts[cmd[t].name].usd_balance
                   THEN accounts[cmd[t].name].usd_balance
                   ELSE accounts[cmd[t].name].usd_balance - amount]_vars

Threads == CmdThreads \cup {"engine"}

\* the holder of the mutex a thread is about to take ("free" when nobody holds it), or
\* "none" when the thread is not at a lock site
Wanted(th) ==
    IF th = "engine"
    THEN CASE pc \in {"is_allowed_order", "settle_accounts"} -> accounts_mutex
           [] pc \in {"line260", "match_order", "remove_order"} -> order_book_mutex
           [] pc = "add_order" /\ order.quantity > 0 -> order_book_mutex
           [] pc = "line204" -> transactions_mutex
           [] OTHER -> "none"
    ELSE CASE cmd[th].pc \in AccountsLockLines -> accounts_mutex
           [] cmd[th].pc \in BookLockLines -> order_book_mutex
           [] OTHER -> "none"

\* C20: in no reachable state is there a set of threads, among the engine thread and the
\* command threads, each of which waits for a mutex that a thread of the set holds: the
\* admission path (accounts, then book), the matching path (book, then accounts, then
\* transactions) and the command paths never close a cycle of waiting.
C20_NoDeadlock ==
    \A S \in SUBSET Threads : S # {} => \E th \in S : Wanted(th) \notin S

\* the engine holds the book inside match_order and waits for the accounts, which a
\* command thread holds, while the other command thread waits for the book
C20_Witness ==
    /\ pc = "settle_accounts"
    /\ order_book_mutex = "engine"
    /\ accounts_mutex \in CmdThreads
    /\ \E t \in CmdThreads : cmd[t].pc \in BookLockLines

\* both threads have returned, so both joins of main return (lines 677-678)
Joined == cmd[Commander].pc = "ended" /\ pc = "exit"

\* C21: once the commander has ended, the engine leaves its blocking pop and terminates,
\* so that main's joins return. If that is so, a state in which the commander has ended
\* and the engine thread has no step it can take is a state in which the engine has
\* terminated.
C21_Terminates ==
    (cmd[Commander].pc = "ended" /\ ~ENABLED EngineStep) => Joined

\* a resting buy order and a resting sell order of two accounts, the buy price at or
\* above the sell price
CrossedBetweenAccounts(book) ==
    \E i \in 1..Len(book["buy"]), j \in 1..Len(book["sell"]) :
        /\ book["buy"][i].account_name # book["sell"][j].account_name
        /\ book["buy"][i].price >= book["sell"][j].price

\* C22, as stated: whenever the engine has finished a message and is ready for the next,
\* no resting buy order and resting sell order of two different accounts cross.
C22_AsStated == (pc = "pop") => ~CrossedBetweenAccounts(order_book)

\* C22: the engine inserts a remainder that crosses a resting order of the opposite side
\* only after a self-trade halt, that is when the head of the opposite side is a crossing
\* order of the remainder's own account; in every other insertion the remainder crosses
\* no resting order.
C22_CrossedOnlyByHalt ==
    [][(pc = "add_order" /\ pc' = "pop" /\ order.quantity > 0) =>
          LET opp == order_book[OppositeSide(order)]
          IN  (\E k \in 1..Len(opp) : Crosses(order, opp[k])) =>
                 /\ opp[1].account_name = order.account_name
                 /\ Crosses(order, opp[1])
      ]_vars

\* the engine is ready for the next message and the book is crossed between two
\* accounts: the best ask is of the account that holds the best bid, below a bid of
\* another account
C22_Witness ==
    /\ pc = "pop"
    /\ order_book["buy"] # << >> /\ order_book["sell"] # << >>
    /\ order_book["sell"][1].account_name = order_book["buy"][1].account_name
    /\ order_book["sell"][1].price <= order_book["buy"][1].price
    /\ \E i \in 2..Len(order_book["buy"]) :
         /\ order_book["buy"][i].account_name # order_book["sell"][1].account_name
         /\ order_book["buy"][i].price >= order_book["sell"][1].price

\* C23: with orders as the only commands (no withdraw, no delete), whenever the engine
\* has finished a message no account has a negative usd_balance or a negative
\* coin_balance.
C23_NonNegative ==
    (pc = "pop") =>
        \A n \in DOMAIN accounts : /\ accounts[n].usd_balance >= 0
                                   /\ accounts[n].coin_balance >= 0

====
